---------------------------- MODULE Spec2Model ----------------------------
(***************************************************************************)
(* A model of the connelaide API request handlers (src/main.py) over the   *)
(* tables of src/models.py.  The store is PostgreSQL (src/init_db.py,      *)
(* src/migrate_category_to_fk.py) reached through one SQLAlchemy session   *)
(* per request (src/database.py), at the default READ COMMITTED level.     *)
(*                                                                         *)
(* Every sequential specification runs whole handlers one at a time; the   *)
(* race specifications split a handler at its database round trips.        *)
(***************************************************************************)
EXTENDS Integers, Sequences, FiniteSets, TLC

VARIABLES
    payPeriods,     \* rows of pay_periods
    ppNextId,       \* next value of the pay_periods id sequence
    categories,     \* rows of connalaide_categories
    catNextId,      \* next value of the connalaide_categories id sequence
    transactions,   \* rows of transactions
    expenses,       \* rows of projected_expenses
    expNextId,      \* next value of the projected_expenses id sequence
    metadata,       \* rows of refresh_metadata
    metaNextId,     \* next value of the refresh_metadata id sequence
    clock,          \* the wall clock, in ticks since the epoch
    fetchedThrough, \* end date of the last window the fetch job fetched, if any
    recurring,      \* rows of recurring_expenses
    recNextId,      \* next value of the recurring_expenses id sequence
    last,           \* the request a sequential specification ran last, with its response
    proc            \* the requests in flight of a race specification

vars == <<payPeriods, ppNextId, categories, catNextId, transactions, expenses,
          expNextId, metadata, metaNextId, clock, fetchedThrough, recurring,
          recNextId, last, proc>>

ppVars == <<payPeriods, ppNextId>>
catVars == <<categories, catNextId, transactions, expenses, expNextId>>
refreshVars == <<metadata, metaNextId, clock, fetchedThrough>>
recVars == <<recurring, recNextId>>

\* An Optional value: None (SQL NULL) is the empty sequence, a value v is <<v>>.
None == <<>>

Some(v) == <<v>>

(***************************************************************************)
(* Text.  A string is the sequence of its code points: "-" is 45 and the   *)
(* digits "0".."9" are 48..57.                                             *)
(***************************************************************************)
IsDigit(c) == c \in 48..57

DigitVal(c) == c - 48

\* the code point of the digit d
Chr(d) == 48 + d

AllDigits(s) == \A i \in 1..Len(s) : IsDigit(s[i])

RECURSIVE NumVal(_)
NumVal(s) == IF s = <<>> THEN 0
             ELSE 10 * NumVal(SubSeq(s, 1, Len(s) - 1)) + DigitVal(s[Len(s)])

\* s <= t in the store's ordering of text: code point by code point, a proper
\* prefix first
RECURSIVE StrLE(_, _)
StrLE(s, t) ==
    IF s = <<>> THEN TRUE
    ELSE IF t = <<>> THEN FALSE
    ELSE IF Head(s) < Head(t) THEN TRUE
    ELSE IF Head(s) > Head(t) THEN FALSE
    ELSE StrLE(Tail(s), Tail(t))

(***************************************************************************)
(* Calendar dates.                                                         *)
(***************************************************************************)
IsLeap(y) == (y % 4 = 0 /\ y % 100 # 0) \/ y % 400 = 0

DaysInMonth(y, m) ==
    IF m = 2 THEN (IF IsLeap(y) THEN 29 ELSE 28)
    ELSE IF m \in {4, 6, 9, 11} THEN 30 ELSE 31

\* the failure of datetime.strptime on a string
ValueError == [ok |-> FALSE]

\* datetime.strptime(s, "%Y-%m-%d"): four digits, one or two digits of a month,
\* one or two digits of a day of that month, and nothing else
strptime(s) ==
    LET dashes == {i \in 1..Len(s) : s[i] = 45}
    IN  IF Cardinality(dashes) # 2 THEN ValueError
        ELSE LET i1 == CHOOSE i \in dashes : \A j \in dashes : i <= j
                 i2 == CHOOSE i \in dashes : \A j \in dashes : j <= i
                 ys == SubSeq(s, 1, i1 - 1)
                 ms == SubSeq(s, i1 + 1, i2 - 1)
                 ds == SubSeq(s, i2 + 1, Len(s))
             IN  IF /\ Len(ys) = 4 /\ AllDigits(ys)
                    /\ Len(ms) \in {1, 2} /\ AllDigits(ms)
                    /\ Len(ds) \in {1, 2} /\ AllDigits(ds)
                    /\ NumVal(ms) \in 1..12
                    /\ NumVal(ds) >= 1
                    /\ NumVal(ds) <= DaysInMonth(NumVal(ys), NumVal(ms))
                 THEN [ok |-> TRUE, y |-> NumVal(ys), m |-> NumVal(ms),
                       d |-> NumVal(ds)]
                 ELSE ValueError

\* a < b for two datetimes at midnight
DateLT(a, b) ==
    \/ a.y < b.y
    \/ a.y = b.y /\ a.m < b.m
    \/ a.y = b.y /\ a.m = b.m /\ a.d < b.d

DateLE(a, b) == ~DateLT(b, a)


(***************************************************************************)
(* Bounds and inputs.                                                      *)
(***************************************************************************)
\* pay_periods ids handed out before the model stops creating
MaxPayPeriodId == 2

\* "2024-01-"
Jan2024 == <<Chr(2), Chr(0), Chr(2), Chr(4), 45, Chr(0), Chr(1), 45>>

\* "2024-01-01" and "2024-01-15": zero-padded dates
PaddedDates == {Jan2024 \o <<Chr(0), Chr(1)>>, Jan2024 \o <<Chr(1), Chr(5)>>}

\* with "2024-01-2" (strptime takes it) and "2024-01-32" (it does not)
DateInputs == PaddedDates \cup {Jan2024 \o <<Chr(2)>>,
                                Jan2024 \o <<Chr(3), Chr(2)>>}

BudgetInputs == {None, Some(100)}

PayPeriodFields == {"start_date", "end_date", "checking_budget"}

\* the change sets of a PATCH /pay-periods/{id}: the fields the body sets,
\* each to a value or to null
OptionalDateInputs == {None} \cup {Some(d) : d \in DateInputs}

\* the dict d restricted to the keys F
Restrict(d, F) == [k \in F |-> d[k]]

\* the change sets of a PATCH /pay-periods/{id} the model draws: any of the two
\* dates set to a date or to null, or the budget alone, or a date with the budget
PayPeriodUpdates ==
    {Restrict(v, F) : F \in SUBSET {"start_date", "end_date"},
                      v \in [start_date : OptionalDateInputs,
                             end_date : OptionalDateInputs]}
    \cup {[checking_budget |-> b] : b \in BudgetInputs}
    \cup {[start_date |-> Some(d), checking_budget |-> Some(100)] : d \in DateInputs}

(***************************************************************************)
(* Pay periods: the handlers of src/main.py, each as one request.          *)
(***************************************************************************)
\* dict.get(key, default) on a change set
Get(update_data, key, default) ==
    IF key \in DOMAIN update_data THEN update_data[key] ELSE default

\* the outcome of validate_pay_period_dates: "ok", or the error it raises
validate_pay_period_dates(start_date, end_date) ==
    IF start_date = None \/ end_date = None THEN "TypeError"
    ELSE LET start == strptime(start_date[1])
             end == strptime(end_date[1])
         IN  IF ~start.ok \/ ~end.ok THEN "Invalid date format. Use YYYY-MM-DD"
             ELSE IF DateLT(end, start) THEN "End date must be >= start date"
             ELSE "ok"

\* the rows the query of check_pay_period_overlap selects
check_pay_period_overlap(rows, start_date, end_date, exclude_id) ==
    {p \in rows : /\ StrLE(p.start_date, end_date)
                  /\ StrLE(start_date, p.end_date)
                  /\ (exclude_id # 0 => p.id # exclude_id)}

\* the response of a request: the handler, the status code, the detail
Respond(op, status, detail) ==
    last' = [op |-> op, status |-> status, detail |-> detail]

create_pay_period(start_date, end_date, checking_budget) ==
    LET valid == validate_pay_period_dates(Some(start_date), Some(end_date))
    IN  /\ ppNextId <= MaxPayPeriodId
        /\ IF valid # "ok"
           THEN /\ Respond("create_pay_period", 400, valid)
                /\ UNCHANGED ppVars
           ELSE IF check_pay_period_overlap(payPeriods, start_date, end_date, 0) # {}
           THEN /\ Respond("create_pay_period", 400, "Date range overlaps")
                /\ UNCHANGED ppVars
           ELSE /\ payPeriods' = payPeriods \cup
                       {[id |-> ppNextId, start_date |-> start_date,
                         end_date |-> end_date,
                         checking_budget |-> checking_budget]}
                /\ ppNextId' = ppNextId + 1
                /\ Respond("create_pay_period", 201, "created")
        /\ UNCHANGED <<recVars, catVars, refreshVars, proc>>

\* the change set dumped without exclude_unset: every field the request
\* leaves out is set to null
ApplyUpdate_unset_as_null(row, update_data, notnull) ==
    [f \in DOMAIN row |->
        IF f \in DOMAIN update_data
        THEN (IF f \in notnull THEN update_data[f][1] ELSE update_data[f])
        ELSE IF f = "id" THEN row[f] ELSE None]

\* the row after setattr of every field of the change set; the columns in
\* notnull hold a bare value, the nullable ones an Optional
ApplyUpdate(row, update_data, notnull) ==
    [f \in DOMAIN row |->
        IF f \in DOMAIN update_data
        THEN (IF f \in notnull THEN update_data[f][1] ELSE update_data[f])
        ELSE row[f]]

update_pay_period(pay_period_id, update_data) ==
    LET found == {p \in payPeriods : p.id = pay_period_id}
    IN  /\ IF found = {}
           THEN /\ Respond("update_pay_period", 404, "Pay period not found")
                /\ UNCHANGED ppVars
           ELSE LET pay_period == CHOOSE p \in found : TRUE
                    new_start == Get(update_data, "start_date",
                                     Some(pay_period.start_date))
                    new_end == Get(update_data, "end_date",
                                   Some(pay_period.end_date))
                    dated == "start_date" \in DOMAIN update_data
                             \/ "end_date" \in DOMAIN update_data
                    valid == IF dated
                             THEN validate_pay_period_dates(new_start, new_end)
                             ELSE "ok"
                IN  IF valid = "TypeError"
                    THEN /\ Respond("update_pay_period", 500, valid)
                         /\ UNCHANGED ppVars
                    ELSE IF valid # "ok"
                    THEN /\ Respond("update_pay_period", 400, valid)
                         /\ UNCHANGED ppVars
                    ELSE IF /\ dated
                            /\ check_pay_period_overlap(payPeriods, new_start[1],
                                   new_end[1], pay_period_id) # {}
                    THEN /\ Respond("update_pay_period", 400,
                                    "Date range overlaps")
                         /\ UNCHANGED ppVars
                    ELSE /\ payPeriods' = (payPeriods \ {pay_period}) \cup
                                {ApplyUpdate(pay_period, update_data,
                                             {"start_date", "end_date"})}
                         /\ Respond("update_pay_period", 200, "updated")
                         /\ UNCHANGED ppNextId
        /\ UNCHANGED <<recVars, catVars, refreshVars, proc>>

delete_pay_period(pay_period_id) ==
    LET found == {p \in payPeriods : p.id = pay_period_id}
    IN  /\ IF found = {}
           THEN /\ Respond("delete_pay_period", 404,
                           "Pay period not found")
                /\ UNCHANGED ppVars
           ELSE /\ payPeriods' = payPeriods \ found
                /\ Respond("delete_pay_period", 204, "deleted")
                /\ UNCHANGED ppNextId
        /\ UNCHANGED <<recVars, catVars, refreshVars, proc>>

(***************************************************************************)
(* Categories, transactions and projected expenses: bounds and inputs.     *)
(***************************************************************************)
\* connalaide_categories ids handed out before the model stops creating
MaxCategoryId == 2

\* rows the fetch job has put in transactions
NumTransactions == 2

\* projected_expenses ids handed out before the model stops creating
MaxExpenseId == 2

\* two names that differ in case only
CategoryNames == {"Food", "food"}

CategoryIds == 1..MaxCategoryId

\* ids of transactions, and one that no row has
TransactionIds == 1..(NumTransactions + 1)

\* a row of transactions as the fetch job stores it
Tx(i) ==
    [id |-> i, transaction_id |-> i, account_name |-> "Checking",
     account_id |-> "checking-001", date |-> Jan2024 \o <<Chr(0), Chr(1)>>,
     name |-> "Kroger", amount |-> 10, pending |-> FALSE,
     merchant_name |-> None, plaid_generated_category |-> None,
     connelaide_category |-> None,
     connelaide_category_id |-> None, edited_amount |-> None, note |-> None,
     impacts_checking_balance |-> Some("review_required")]

\* the change sets of a PATCH /connalaide-categories/{id} the model draws
CategoryUpdates ==
    {<<>>} \cup {[name |-> n] : n \in {None} \cup {Some(x) : x \in CategoryNames}}

\* the change sets of a PATCH /transactions/{id} the model draws
CategoryIdUpdates ==
    {<<>>} \cup {[connelaide_category_id |-> c] :
                    c \in {None} \cup {Some(x) : x \in CategoryIds}}

\* the fields of TransactionUpdateRequest
EditableFields ==
    {"connelaide_category_id", "edited_amount", "note", "impacts_checking_balance"}

\* a request schema that keeps every field of the body
TransactionUpdateRequest_any_field(body) == body

\* updates.model_dump(exclude_unset=True): the fields of the body the schema
\* declares; the schema ignores the others
TransactionUpdateRequest(body) == Restrict(body, DOMAIN body \cap EditableFields)

\* the JSON bodies of a PATCH /transactions/{id} the model draws: each
\* editable field alone, two together, and bodies naming fields the fetch
\* job owns
TransactionBodies ==
    {<<>>}
    \cup {[connelaide_category_id |-> c] :
            c \in {None} \cup {Some(x) : x \in CategoryIds}}
    \cup {[edited_amount |-> a] : a \in {None, Some(12)}}
    \cup {[note |-> n] : n \in {None, Some("groceries")}}
    \cup {[impacts_checking_balance |-> v] :
            v \in {Some("true"), Some("false"), Some("review_required"),
                   Some("maybe")}}
    \cup {[note |-> Some("groceries"), edited_amount |-> Some(12)]}
    \cup {[merchant_name |-> Some("Aldi")]}
    \cup {[note |-> Some("groceries"), merchant_name |-> Some("Aldi"),
           plaid_generated_category |-> Some("Shops")]}

(***************************************************************************)
(* Categories, transactions and projected expenses: the handlers, each as  *)
(* one request.                                                            *)
(***************************************************************************)
\* db.query(Model).filter(Model.id == id): the rows with that id
ById(rows, id) == {r \in rows : r.id = id}

\* rows whose connelaide_category_id is category_id
Referencing(rows, category_id) ==
    {r \in rows : r.connelaide_category_id = Some(category_id)}

\* the constraints of src/models.py the store enforces on every write: the
\* unique name of a category (line 52) and the three foreign keys (lines 21,
\* 71 and 75)
IntegrityHolds(cats, txs, exps) ==
    /\ \A a \in cats, b \in cats : a.name = b.name => a.id = b.id
    /\ \A t \in txs : \/ t.connelaide_category_id = None
                       \/ ById(cats, t.connelaide_category_id[1]) # {}
    /\ \A e \in exps : /\ \/ e.connelaide_category_id = None
                          \/ ById(cats, e.connelaide_category_id[1]) # {}
                       /\ \/ e.merged_transaction_id = None
                          \/ ById(txs, e.merged_transaction_id[1]) # {}

\* db.commit(): the rows are stored when the constraints hold; otherwise the
\* flush raises IntegrityError, which no handler catches, and the session is
\* rolled back when it closes (src/database.py 37-38)
Commit(op, cats, txs, exps, status, detail) ==
    IF IntegrityHolds(cats, txs, exps)
    THEN /\ categories' = cats
         /\ transactions' = txs
         /\ expenses' = exps
         /\ Respond(op, status, detail)
    ELSE /\ UNCHANGED <<categories, transactions, expenses>>
         /\ Respond(op, 500, "IntegrityError")

\* create_category without the name check of lines 282-284
create_category_existing_unchecked(name) == {}

\* line 282: the rows the name check of create_category finds
create_category_existing(name) == {c \in categories : c.name = name}

create_category(name, target_budget) ==
    /\ catNextId <= MaxCategoryId
    /\ IF create_category_existing(name) # {}
       THEN /\ Respond("create_category", 400,
                       "Category with this name already exists")
            /\ UNCHANGED catVars
       ELSE /\ Commit("create_category",
                      categories \cup {[id |-> catNextId, name |-> name,
                                        target_budget |-> None]},
                      transactions, expenses, 201, "created")
            \* the INSERT draws from the id sequence even when it fails
            /\ catNextId' = catNextId + 1
            /\ UNCHANGED expNextId
    /\ UNCHANGED <<recVars, ppVars, refreshVars, proc>>

\* lines 308-312: the rows the name check of update_category finds
update_category_existing(category_id, update_data) ==
    IF "name" \in DOMAIN update_data
    THEN {c \in categories : /\ Some(c.name) = update_data["name"]
                             /\ c.id # category_id}
    ELSE {}

update_category(category_id, update_data) ==
    LET found == ById(categories, category_id)
    IN  /\ IF found = {}
           THEN /\ Respond("update_category", 404, "Category not found")
                /\ UNCHANGED catVars
           ELSE LET category == CHOOSE c \in found : TRUE
                    existing == update_category_existing(category_id, update_data)
                IN  IF existing # {}
                    THEN /\ Respond("update_category", 400,
                                    "Category with this name already exists")
                         /\ UNCHANGED catVars
                    ELSE IF "name" \in DOMAIN update_data
                            /\ update_data["name"] = None
                    THEN \* name is NOT NULL: the UPDATE fails and is rolled back
                         /\ Respond("update_category", 500, "IntegrityError")
                         /\ UNCHANGED catVars
                    ELSE /\ Commit("update_category",
                                   (categories \ {category}) \cup
                                     {ApplyUpdate(category, update_data, {"name"})},
                                   transactions, expenses, 200, "updated")
                         /\ UNCHANGED <<catNextId, expNextId>>
        /\ UNCHANGED <<recVars, ppVars, refreshVars, proc>>

\* rows with the connelaide_category_id of every row in ids set to NULL
NullOut(rows, ids) ==
    {IF r.id \in ids THEN [r EXCEPT !.connelaide_category_id = None] ELSE r
        : r \in rows}

\* lines 335-338: the transactions the bulk UPDATE of delete_category changes
delete_category_nulled(category_id) ==
    {t.id : t \in Referencing(transactions, category_id)}

delete_category(category_id) ==
    /\ IF ById(categories, category_id) = {}
       THEN /\ Respond("delete_category", 404, "Category not found")
            /\ UNCHANGED catVars
       ELSE /\ Commit("delete_category",
                      categories \ ById(categories, category_id),
                      NullOut(transactions, delete_category_nulled(category_id)),
                      expenses, 204, "deleted")
            /\ UNCHANGED <<catNextId, expNextId>>
    /\ UNCHANGED <<recVars, ppVars, refreshVars, proc>>

\* update_transaction without the lookup of lines 226-232
CategoryMissing_unchecked(update_data) == FALSE

\* lines 226-232: the category a change set names does not exist
CategoryMissing(update_data) ==
    /\ "connelaide_category_id" \in DOMAIN update_data
    /\ update_data["connelaide_category_id"] # None
    /\ ById(categories, update_data["connelaide_category_id"][1]) = {}

update_transaction(transaction_id, update_data) ==
    LET found == ById(transactions, transaction_id)
    IN  /\ IF found = {}
           THEN /\ Respond("update_transaction", 404, "Transaction not found")
                /\ UNCHANGED catVars
           ELSE IF CategoryMissing(update_data)
           THEN /\ Respond("update_transaction", 400, "Category not found")
                /\ UNCHANGED catVars
           ELSE LET transaction == CHOOSE t \in found : TRUE
                IN  /\ Commit("update_transaction", categories,
                              (transactions \ {transaction}) \cup
                                {ApplyUpdate(transaction, update_data, {})},
                              expenses, 200, "updated")
                    /\ UNCHANGED <<catNextId, expNextId>>
        /\ UNCHANGED <<recVars, ppVars, refreshVars, proc>>

\* TransactionResponse built from a row (from_attributes): name is returned
\* as description and plaid_generated_category as category.  Before that the
\* handler overwrites the row's connelaide_category attribute with the name
\* of the joined category when the relationship resolves (lines 89-91 and
\* 241-242); otherwise the attribute keeps what the column holds
TransactionResponse(t) ==
    LET category == IF t.connelaide_category_id = None THEN {}
                    ELSE ById(categories, t.connelaide_category_id[1])
    IN  [id |-> t.id, transaction_id |-> t.transaction_id,
         account_name |-> t.account_name, account_id |-> t.account_id,
         date |-> t.date, description |-> t.name, amount |-> t.amount,
         pending |-> t.pending, merchant_name |-> t.merchant_name,
         category |-> t.plaid_generated_category,
         connelaide_category_id |-> t.connelaide_category_id,
         connelaide_category |->
             IF category # {}
             THEN Some((CHOOSE c \in category : TRUE).name)
             ELSE t.connelaide_category,
         edited_amount |-> t.edited_amount, note |-> t.note,
         impacts_checking_balance |-> t.impacts_checking_balance]

\* lines 240-244: what update_transaction returns for the row it updated
update_transaction_response(transaction_id) ==
    TransactionResponse(CHOOSE t \in transactions : t.id = transaction_id)

\* order_by(date.desc(), transaction_id.desc()): the ids of rows in the order
\* the query returns them
TransactionOrder(rows) ==
    LET n == Cardinality(rows)
        row(id) == CHOOSE t \in rows : t.id = id
    IN  CHOOSE s \in [1..n -> {t.id : t \in rows}] :
            /\ \A i \in 1..n, j \in 1..n : s[i] = s[j] => i = j
            /\ \A i \in 1..n, j \in 1..n :
                  i < j =>
                     \/ /\ row(s[i]).date # row(s[j]).date
                        /\ StrLE(row(s[j]).date, row(s[i]).date)
                     \/ /\ row(s[i]).date = row(s[j]).date
                        /\ row(s[i]).transaction_id > row(s[j]).transaction_id

\* lines 73-93
get_transactions(start_date, end_date) ==
    LET rows == {t \in transactions : /\ StrLE(start_date, t.date)
                                      /\ StrLE(t.date, end_date)}
        order == TransactionOrder(rows)
    IN  /\ last' = [op |-> "get_transactions", status |-> 200,
                    detail |-> "listed",
                    listed |-> [i \in 1..Len(order) |->
                       TransactionResponse(CHOOSE t \in rows : t.id = order[i])]]
        /\ UNCHANGED <<recVars, ppVars, catVars, refreshVars, proc>>

\* a row of transactions as it was before the migration: the category is a
\* string in connelaide_category, or there is none
LegacyTx(i) ==
    [Tx(i) EXCEPT !.connelaide_category = IF i = 1 THEN Some("Food") ELSE None]

\* migrate(): a category row for every string no category has yet (step 2),
\* then connelaide_category_id of every row without one set to the category
\* of its string (step 3); the string column is kept
migrate(cats, txs, nextId) ==
    LET missing == {t.connelaide_category[1] :
                      t \in {x \in txs : x.connelaide_category # None}}
                   \ {c.name : c \in cats}
        ids == nextId..(nextId + Cardinality(missing) - 1)
        id == CHOOSE f \in [missing -> ids] :
                 \A a \in missing, b \in missing : f[a] = f[b] => a = b
        after == cats \cup {[id |-> id[n], name |-> n, target_budget |-> None] :
                              n \in missing}
        named(t) == {c \in after : Some(c.name) = t.connelaide_category}
    IN  [categories |-> after,
         transactions |->
            {IF t.connelaide_category_id = None /\ named(t) # {}
             THEN [t EXCEPT !.connelaide_category_id =
                               Some((CHOOSE c \in named(t) : TRUE).id)]
             ELSE t : t \in txs},
         catNextId |-> nextId + Cardinality(missing)]

create_projected_expense(name, amount, date, connelaide_category_id, note) ==
    /\ expNextId <= MaxExpenseId
    /\ IF /\ connelaide_category_id # None
          /\ ById(categories, connelaide_category_id[1]) = {}
       THEN /\ Respond("create_projected_expense", 400, "Category not found")
            /\ UNCHANGED catVars
       ELSE /\ Commit("create_projected_expense", categories, transactions,
                      expenses \cup
                        {[id |-> expNextId, name |-> name, amount |-> amount,
                          date |-> date,
                          connelaide_category_id |-> connelaide_category_id,
                          note |-> note, is_struck_out |-> FALSE,
                          merged_transaction_id |-> None]},
                      201, "created")
            /\ expNextId' = expNextId + 1
            /\ UNCHANGED catNextId
    /\ UNCHANGED <<recVars, ppVars, refreshVars, proc>>

\* the orders in which a query ordered by date descending may return rows:
\* text order on the String(50) column, rows of one date in any order
DateDescending(rows) ==
    LET n == Cardinality(rows)
        ids == {e.id : e \in rows}
        date(id) == (CHOOSE e \in rows : e.id = id).date
    IN  {s \in [1..n -> ids] :
            /\ \A i \in 1..n, j \in 1..n : s[i] = s[j] => i = j
            /\ \A i \in 1..n, j \in 1..n :
                  i < j => StrLE(date(s[j]), date(s[i]))}

\* lines 481-487: the rows the query of get_projected_expenses selects
get_projected_expenses_rows(start_date, end_date) ==
    {e \in expenses : /\ StrLE(start_date, e.date)
                      /\ StrLE(e.date, end_date)
                      /\ e.merged_transaction_id = None}

\* includeMerged is a query parameter of the request; the handler declares
\* start_date and end_date only, and a parameter it does not declare is dropped
get_projected_expenses(start_date, end_date, includeMerged) ==
    /\ \E listed \in DateDescending(get_projected_expenses_rows(start_date,
                                                                end_date)) :
          last' = [op |-> "get_projected_expenses", status |-> 200,
                   detail |-> "listed", listed |-> listed]
    /\ UNCHANGED <<recVars, ppVars, catVars, refreshVars, proc>>

\* update_projected_expense without the lookup of lines 553-558
TransactionMissing_unchecked(update_data) == FALSE

\* lines 553-558
TransactionMissing(update_data) ==
    /\ "merged_transaction_id" \in DOMAIN update_data
    /\ update_data["merged_transaction_id"] # None
    /\ ById(transactions, update_data["merged_transaction_id"][1]) = {}

\* name, amount and date of projected_expenses are nullable=False
\* (src/models.py 68-70)
ExpenseNotNull == {"name", "amount", "date"}

\* update_projected_expense with the category written and committed before
\* the merged transaction is looked up
update_projected_expense_category_first(expense_id, update_data) ==
    LET found == ById(expenses, expense_id)
    IN  /\ IF found = {}
           THEN /\ Respond("update_projected_expense", 404,
                           "Projected expense not found")
                /\ UNCHANGED catVars
           ELSE IF CategoryMissing(update_data)
           THEN /\ Respond("update_projected_expense", 400,
                           "Category not found")
                /\ UNCHANGED catVars
           ELSE IF TransactionMissing(update_data)
           THEN LET expense == CHOOSE e \in found : TRUE
                    first == Restrict(update_data,
                                DOMAIN update_data \cap {"connelaide_category_id"})
                IN  /\ Commit("update_projected_expense", categories,
                              transactions,
                              (expenses \ {expense}) \cup
                                {ApplyUpdate(expense, first, ExpenseNotNull)},
                              400, "Transaction not found")
                    /\ UNCHANGED <<catNextId, expNextId>>
           ELSE IF \E f \in ExpenseNotNull \cap DOMAIN update_data :
                      update_data[f] = None
           THEN /\ Respond("update_projected_expense", 500, "IntegrityError")
                /\ UNCHANGED catVars
           ELSE LET expense == CHOOSE e \in found : TRUE
                IN  /\ Commit("update_projected_expense", categories,
                              transactions,
                              (expenses \ {expense}) \cup
                                {ApplyUpdate(expense, update_data,
                                             ExpenseNotNull)},
                              200, "updated")
                    /\ UNCHANGED <<catNextId, expNextId>>
        /\ UNCHANGED <<recVars, ppVars, refreshVars, proc>>

update_projected_expense(expense_id, update_data) ==
    LET found == ById(expenses, expense_id)
    IN  /\ IF found = {}
           THEN /\ Respond("update_projected_expense", 404,
                           "Projected expense not found")
                /\ UNCHANGED catVars
           ELSE IF CategoryMissing(update_data)
           THEN /\ Respond("update_projected_expense", 400,
                           "Category not found")
                /\ UNCHANGED catVars
           ELSE IF TransactionMissing(update_data)
           THEN /\ Respond("update_projected_expense", 400,
                           "Transaction not found")
                /\ UNCHANGED catVars
           ELSE IF \E f \in ExpenseNotNull \cap DOMAIN update_data :
                      update_data[f] = None
           THEN /\ Respond("update_projected_expense", 500, "IntegrityError")
                /\ UNCHANGED catVars
           ELSE LET expense == CHOOSE e \in found : TRUE
                IN  /\ Commit("update_projected_expense", categories,
                              transactions,
                              (expenses \ {expense}) \cup
                                {ApplyUpdate(expense, update_data,
                                             ExpenseNotNull)},
                              200, "updated")
                    /\ UNCHANGED <<catNextId, expNextId>>
        /\ UNCHANGED <<recVars, ppVars, refreshVars, proc>>

delete_projected_expense(expense_id) ==
    LET found == ById(expenses, expense_id)
    IN  /\ IF found = {}
           THEN /\ Respond("delete_projected_expense", 404,
                           "Projected expense not found")
                /\ UNCHANGED catVars
           ELSE /\ Commit("delete_projected_expense", categories,
                          transactions, expenses \ found, 204, "deleted")
                /\ UNCHANGED <<catNextId, expNextId>>
        /\ UNCHANGED <<recVars, ppVars, refreshVars, proc>>

\* the change sets of a PATCH /projected-expenses/{id} the model draws
ExpenseUpdates ==
    {<<>>}
    \cup {[merged_transaction_id |-> t] :
            t \in {None} \cup {Some(x) : x \in TransactionIds}}
    \cup {[date |-> d] : d \in {None} \cup {Some(x) : x \in PaddedDates}}

(***************************************************************************)
(* The ingestion of fetched transactions.  The fetch job is not part of    *)
(* these sources; its upsert is taken from the specification of the        *)
(* Transaction Store, over the transactions table of src/models.py.        *)
(***************************************************************************)
\* the external transaction ids the fetch job delivers: those of the stored
\* transactions and a new one
ExternalIds == 1..(NumTransactions + 1)

\* what the fetch job delivers for a transaction
FetchedFields ==
    [date : {Jan2024 \o <<Chr(1), Chr(5)>>}, amount : {10, 25},
     pending : BOOLEAN]

\* transaction_id = Column(String(255), unique=True, ...) (src/models.py 11)
TransactionIdUnique(txs) ==
    \A a \in txs, b \in txs : a.transaction_id = b.transaction_id => a.id = b.id

\* the next value of the transactions id sequence
NextTransactionId ==
    1 + CHOOSE m \in {t.id : t \in transactions} :
            \A t \in transactions : t.id <= m

\* an ingestion that inserts every delivered transaction
upsert_insert_only(external_transaction_id, fields) ==
    LET row == [Tx(NextTransactionId) EXCEPT
                   !.transaction_id = external_transaction_id,
                   !.date = fields.date, !.amount = fields.amount,
                   !.pending = fields.pending]
    IN  /\ NextTransactionId <= NumTransactions + 1
        /\ IF TransactionIdUnique(transactions \cup {row})
           THEN /\ transactions' = transactions \cup {row}
                /\ Respond("upsert", 200, "inserted")
           ELSE /\ UNCHANGED transactions
                /\ Respond("upsert", 500, "IntegrityError")
        /\ UNCHANGED <<recVars, ppVars, categories, catNextId, expenses, expNextId,
                       refreshVars, proc>>

\* upsert(external_transaction_id, fields...): the row of that
\* external_transaction_id takes the delivered fields, or a new row is stored
upsert(external_transaction_id, fields) ==
    LET found == {t \in transactions :
                     t.transaction_id = external_transaction_id}
        row == [Tx(NextTransactionId) EXCEPT
                   !.transaction_id = external_transaction_id,
                   !.date = fields.date, !.amount = fields.amount,
                   !.pending = fields.pending]
    IN  /\ IF found # {}
           THEN /\ transactions' =
                      {IF t \in found
                       THEN [t EXCEPT !.date = fields.date,
                                      !.amount = fields.amount,
                                      !.pending = fields.pending]
                       ELSE t : t \in transactions}
                /\ Respond("upsert", 200, "updated")
           ELSE /\ NextTransactionId <= NumTransactions + 1
                /\ TransactionIdUnique(transactions \cup {row})
                /\ transactions' = transactions \cup {row}
                /\ Respond("upsert", 200, "inserted")
        /\ UNCHANGED <<recVars, ppVars, categories, catNextId, expenses, expNextId,
                       refreshVars, proc>>

(***************************************************************************)
(* Recurring expenses.  src/schemas.py 175-199 declares the request        *)
(* bodies; the recurring_expenses table and its handlers are imported by   *)
(* src/init_db.py and src/seed_data.py but are not part of these sources,  *)
(* and are taken from the specification of the Recurring Expense Engine.   *)
(***************************************************************************)
\* recurring_expenses ids handed out before the model stops creating
MaxRecurringId == 2

\* RecurringExpenseBase: frequency is any str, day_of_month any int,
\* month_of_year any Optional[int]
FrequencyInputs == {"monthly", "yearly", "weekly"}

DayOfMonthInputs == {0, 1, 31, 32}

MonthOfYearInputs == {None, Some(0), Some(1), Some(12), Some(13)}

\* the change sets of an update the model draws
RecurringUpdates ==
    {[frequency |-> Some(f)] : f \in FrequencyInputs}
    \cup {[day_of_month |-> Some(d)] : d \in DayOfMonthInputs}
    \cup {[month_of_year |-> m] : m \in MonthOfYearInputs}
    \cup {[frequency |-> Some(f), month_of_year |-> m] :
            f \in FrequencyInputs, m \in MonthOfYearInputs}

\* a template validated on its frequency and day_of_month only
RecurringValid_no_month_rule(row) ==
    /\ row.frequency \in {"monthly", "yearly"}
    /\ row.day_of_month \in 1..31

\* frequency is monthly or yearly, day_of_month is in [1,31], and
\* month_of_year is present and in [1,12] exactly when frequency = yearly
RecurringValid(row) ==
    /\ row.frequency \in {"monthly", "yearly"}
    /\ row.day_of_month \in 1..31
    /\ IF row.frequency = "yearly"
       THEN row.month_of_year # None /\ row.month_of_year[1] \in 1..12
       ELSE row.month_of_year = None

RecurringNotNull == {"name", "amount", "frequency", "day_of_month", "start_date"}

create_recurring_expense(frequency, day_of_month, month_of_year) ==
    LET row == [id |-> recNextId, name |-> "Rent", amount |-> 1500,
                frequency |-> frequency, day_of_month |-> day_of_month,
                month_of_year |-> month_of_year,
                start_date |-> Jan2024 \o <<Chr(0), Chr(1)>>,
                end_date |-> None, connelaide_category_id |-> None,
                note |-> None, is_active |-> TRUE]
    IN  /\ recNextId <= MaxRecurringId
        /\ IF RecurringValid(row)
           THEN /\ recurring' = recurring \cup {row}
                /\ recNextId' = recNextId + 1
                /\ Respond("create_recurring_expense", 201, "created")
           ELSE /\ UNCHANGED recVars
                /\ Respond("create_recurring_expense", 400,
                           "Invalid recurring expense")
        /\ UNCHANGED <<ppVars, catVars, refreshVars, proc>>

update_recurring_expense(recurring_id, update_data) ==
    LET found == ById(recurring, recurring_id)
    IN  /\ IF found = {}
           THEN /\ Respond("update_recurring_expense", 404,
                           "Recurring expense not found")
                /\ UNCHANGED recVars
           ELSE LET row == CHOOSE r \in found : TRUE
                    new == ApplyUpdate(row, update_data, RecurringNotNull)
                IN  IF RecurringValid(new)
                    THEN /\ recurring' = (recurring \ {row}) \cup {new}
                         /\ UNCHANGED recNextId
                         /\ Respond("update_recurring_expense", 200, "updated")
                    ELSE /\ UNCHANGED recVars
                         /\ Respond("update_recurring_expense", 400,
                                    "Invalid recurring expense")
        /\ UNCHANGED <<ppVars, catVars, refreshVars, proc>>

(***************************************************************************)
(* The state after construction, and the specifications.                   *)
(***************************************************************************)
Workers == {1, 2}

\* a worker between requests, with the response of the request it served last
Done(op, req, status, detail) ==
    [pc |-> "idle", op |-> op, req |-> req, status |-> status, detail |-> detail]

Idle == Done("none", None, 0, "none")

\* a worker inside handler op, about to run step pc, with the handler's locals
At(pc, op, req) ==
    [pc |-> pc, op |-> op, req |-> req, status |-> 0, detail |-> "none"]

Init ==
    /\ payPeriods = {}
    /\ ppNextId = 1
    /\ categories = {}
    /\ catNextId = 1
    /\ transactions = {Tx(i) : i \in 1..NumTransactions}
    /\ expenses = {}
    /\ expNextId = 1
    /\ metadata = {}
    /\ metaNextId = 1
    /\ clock = 0
    /\ fetchedThrough = None
    /\ recurring = {}
    /\ recNextId = 1
    /\ last = [op |-> "none", status |-> 0, detail |-> "none"]
    /\ proc = [w \in Workers |-> Idle]

\* pay-period requests, one at a time
PayPeriodNext ==
    \/ \E s \in DateInputs, e \in DateInputs, b \in BudgetInputs :
          create_pay_period(s, e, b)
    \/ \E id \in 1..MaxPayPeriodId, u \in PayPeriodUpdates :
          update_pay_period(id, u)
    \/ \E id \in 1..MaxPayPeriodId : delete_pay_period(id)

PayPeriodSpec == Init /\ [][PayPeriodNext]_vars

(***************************************************************************)
(* create_pay_period as two requests run it at once, each on a session of  *)
(* its own: the overlap query reads the committed rows, and the INSERT is  *)
(* committed in a later round trip.                                        *)
(***************************************************************************)
Inserting == {w \in Workers : proc[w].pc = "insert_pay_period"}

\* lines 408-409: validation and the overlap query
create_pay_period_check(w, start_date, end_date, checking_budget) ==
    LET req == [start_date |-> start_date, end_date |-> end_date,
                checking_budget |-> checking_budget]
        valid == validate_pay_period_dates(Some(start_date), Some(end_date))
    IN  /\ proc[w].pc = "idle"
        /\ ppNextId + Cardinality(Inserting) <= MaxPayPeriodId
        /\ proc' = [proc EXCEPT ![w] =
              IF valid # "ok"
              THEN Done("create_pay_period", req, 400, valid)
              ELSE IF check_pay_period_overlap(payPeriods, start_date, end_date, 0) # {}
              THEN Done("create_pay_period", req, 400, "Date range overlaps")
              ELSE At("insert_pay_period", "create_pay_period", req)]
        /\ UNCHANGED <<recVars, ppVars, catVars, refreshVars, last>>

\* lines 411-419: the INSERT and its commit
create_pay_period_commit(w) ==
    /\ proc[w].pc = "insert_pay_period"
    /\ payPeriods' = payPeriods \cup
           {[id |-> ppNextId, start_date |-> proc[w].req.start_date,
             end_date |-> proc[w].req.end_date,
             checking_budget |-> proc[w].req.checking_budget]}
    /\ ppNextId' = ppNextId + 1
    /\ proc' = [proc EXCEPT ![w] =
                  Done("create_pay_period", proc[w].req, 201, "created")]
    /\ UNCHANGED <<recVars, catVars, refreshVars, last>>

PayPeriodRaceNext ==
    \/ \E w \in Workers, s \in PaddedDates, e \in PaddedDates :
          create_pay_period_check(w, s, e, None)
    \/ \E w \in Workers : create_pay_period_commit(w)

PayPeriodRaceSpec == Init /\ [][PayPeriodRaceNext]_vars

\* category and transaction requests, one at a time
CategoryNext ==
    \/ \E n \in CategoryNames, b \in BudgetInputs : create_category(n, b)
    \/ \E id \in CategoryIds, u \in CategoryUpdates : update_category(id, u)
    \/ \E id \in CategoryIds : delete_category(id)
    \/ \E id \in TransactionIds, u \in CategoryIdUpdates :
          update_transaction(id, u)

CategorySpec == Init /\ [][CategoryNext]_vars

\* category, transaction and projected-expense requests, one at a time
ExpenseNext ==
    \/ create_category("Food", None)
    \/ \E id \in CategoryIds : delete_category(id)
    \/ \E id \in TransactionIds, u \in CategoryIdUpdates :
          update_transaction(id, u)
    \/ \E c \in {None} \cup {Some(x) : x \in CategoryIds} :
          create_projected_expense("rent", 900, Jan2024 \o <<Chr(0), Chr(1)>>,
                                   c, None)

ExpenseSpec == Init /\ [][ExpenseNext]_vars

ProjectedExpenseNext ==
    \/ \E d \in PaddedDates :
          create_projected_expense("rent", 900, d, None, None)
    \/ \E id \in 1..(MaxExpenseId + 1), u \in ExpenseUpdates :
          update_projected_expense(id, u)
    \/ \E id \in 1..(MaxExpenseId + 1) : delete_projected_expense(id)
    \/ \E d \in PaddedDates, e \in PaddedDates, includeMerged \in BOOLEAN :
          get_projected_expenses(d, e, includeMerged)

ProjectedExpenseSpec == Init /\ [][ProjectedExpenseNext]_vars

IngestNext ==
    \/ \E x \in ExternalIds, fields \in FetchedFields : upsert(x, fields)
    \/ update_transaction(1, [note |-> Some("groceries")])

IngestSpec == Init /\ [][IngestNext]_vars

\* the transactions the edits address: a stored one and an id not stored
EditedIds == {1, NumTransactions + 1}

\* transaction edits, one at a time, with a category to assign
TransactionNext ==
    \/ create_category("Food", None)
    \/ \E id \in EditedIds, body \in TransactionBodies :
          update_transaction(id, TransactionUpdateRequest(body))

TransactionSpec == Init /\ [][TransactionNext]_vars

\* the dates the requests of StoreNext carry: two days and no day
StoreDates == PaddedDates \cup {Jan2024 \o <<Chr(3), Chr(2)>>}

\* the change sets of a PATCH /projected-expenses/{id} StoreNext draws: a
\* category, a merged transaction, or both, stored or not
StoreExpenseUpdates ==
    {[connelaide_category_id |-> Some(c)] : c \in CategoryIds}
    \cup {[merged_transaction_id |-> Some(t)] : t \in EditedIds}
    \cup {[connelaide_category_id |-> Some(1),
           merged_transaction_id |-> Some(t)] : t \in EditedIds}

\* the mutating requests of categories, transactions and projected expenses
StoreCategoryNext ==
    \/ create_category("Food", None)
    \/ \E id \in CategoryIds, n \in CategoryNames :
          update_category(id, [name |-> Some(n)])
    \/ \E id \in CategoryIds : delete_category(id)
    \/ \E id \in EditedIds, u \in CategoryIdUpdates : update_transaction(id, u)
    \/ create_projected_expense("rent", 900, Jan2024 \o <<Chr(0), Chr(1)>>,
                                None, None)
    \/ \E id \in 1..MaxExpenseId, u \in StoreExpenseUpdates :
          update_projected_expense(id, u)
    \/ \E id \in 1..MaxExpenseId : delete_projected_expense(id)

\* the mutating requests of pay periods
StorePayPeriodNext ==
    \/ \E d \in StoreDates, e \in StoreDates : create_pay_period(d, e, None)
    \/ \E id \in 1..MaxPayPeriodId, d \in StoreDates :
          update_pay_period(id, [start_date |-> Some(d)])
    \/ \E id \in 1..MaxPayPeriodId : delete_pay_period(id)

\* every mutating request of the four tables, one at a time.  The pay-period
\* handlers read and write pay_periods alone and the other handlers never
\* touch it, so a run drives one of the two families of tables
StoreNext ==
    \/ ppNextId = 1 /\ payPeriods = {} /\ StoreCategoryNext
    \/ catNextId = 1 /\ expNextId = 1 /\ StorePayPeriodNext

StoreSpec == Init /\ [][StoreNext]_vars

\* the database the API is deployed on after migrate() has run on the rows
\* that carried category strings
LegacyInit ==
    LET migrated == migrate({}, {LegacyTx(i) : i \in 1..NumTransactions}, 1)
    IN  /\ payPeriods = {}
        /\ ppNextId = 1
        /\ categories = migrated.categories
        /\ catNextId = migrated.catNextId
        /\ transactions = migrated.transactions
        /\ expenses = {}
        /\ expNextId = 1
        /\ metadata = {}
        /\ metaNextId = 1
        /\ clock = 0
        /\ fetchedThrough = None
        /\ recurring = {}
        /\ recNextId = 1
        /\ last = [op |-> "none", status |-> 0, detail |-> "none"]
        /\ proc = [w \in Workers |-> Idle]

\* category and transaction requests on the migrated database, one at a time
LegacyNext ==
    \/ \E n \in CategoryNames : create_category(n, None)
    \/ \E id \in CategoryIds, n \in CategoryNames :
          update_category(id, [name |-> Some(n)])
    \/ \E id \in CategoryIds : delete_category(id)
    \/ \E id \in EditedIds, u \in CategoryIdUpdates : update_transaction(id, u)
    \/ \E d \in PaddedDates, e \in PaddedDates : get_transactions(d, e)

LegacySpec == LegacyInit /\ [][LegacyNext]_vars

RecurringNext ==
    \/ \E f \in FrequencyInputs, d \in DayOfMonthInputs,
          m \in MonthOfYearInputs : create_recurring_expense(f, d, m)
    \/ \E id \in 1..(MaxRecurringId + 1), u \in RecurringUpdates :
          update_recurring_expense(id, u)

RecurringSpec == Init /\ [][RecurringNext]_vars

(***************************************************************************)
(* create_category, update_transaction and delete_category as requests run *)
(* them at once.  Each request has a session of its own (src/database.py   *)
(* 29-38): its statements read the committed rows, its writes stay its own *)
(* until db.commit(), and they are dropped when the session closes without *)
(* one.  A written row is locked until then; the foreign key of            *)
(* transactions.connelaide_category_id (src/models.py 21) makes a write of *)
(* a reference wait for a pending DELETE of the category, and the DELETE   *)
(* wait for a pending write of a reference.                                *)
(***************************************************************************)
Others(w) == Workers \ {w}

\* the transactions worker w has written and not yet committed
TxLocks(w) ==
    IF proc[w].pc \in {"dc_unlink", "dc_delete", "dc_commit"}
    THEN proc[w].req.nulled
    ELSE IF proc[w].pc = "ut_commit" /\ proc[w].req.changed # {}
    THEN {proc[w].req.transaction_id}
    ELSE {}

\* the categories worker w has written a reference to and not yet committed
KeyShares(w) ==
    IF /\ proc[w].pc = "ut_commit"
       /\ "connelaide_category_id" \in proc[w].req.changed
       /\ proc[w].req.update_data["connelaide_category_id"] # None
    THEN {proc[w].req.update_data["connelaide_category_id"][1]}
    ELSE {}

\* the categories worker w has deleted and not yet committed
PendingDeletes(w) ==
    IF proc[w].pc = "dc_commit" THEN {proc[w].req.category_id} ELSE {}

LockedByOthers(w) == UNION {TxLocks(o) : o \in Others(w)}

\* lines 282-284: the name check
create_category_check(w, name, target_budget) ==
    LET req == [name |-> name, target_budget |-> target_budget]
    IN  /\ proc[w].pc = "idle"
        /\ catNextId + Cardinality({o \in Workers : proc[o].pc = "cc_insert"})
              <= MaxCategoryId
        /\ proc' = [proc EXCEPT ![w] =
              IF create_category_existing(name) # {}
              THEN Done("create_category", req, 400,
                        "Category with this name already exists")
              ELSE At("cc_insert", "create_category", req)]
        /\ UNCHANGED <<recVars, ppVars, catVars, refreshVars, last>>

\* the unique index of connalaide_categories.name (src/models.py 52) refuses
\* the INSERT of a name a stored row has
UniqueNameRefuses(name) == \E c \in categories : c.name = name

\* lines 286-290: the INSERT and its commit; the store decides an INSERT of a
\* name another session has inserted only after that session has ended
create_category_insert(w) ==
    /\ proc[w].pc = "cc_insert"
    /\ catNextId' = catNextId + 1
    /\ IF UniqueNameRefuses(proc[w].req.name)
       THEN /\ proc' = [proc EXCEPT ![w] =
                  Done("create_category", proc[w].req, 500, "IntegrityError")]
            /\ UNCHANGED categories
       ELSE /\ categories' = categories \cup
                  {[id |-> catNextId, name |-> proc[w].req.name,
                    target_budget |-> None]}
            /\ proc' = [proc EXCEPT ![w] =
                  Done("create_category", proc[w].req, 201, "created")]
    /\ UNCHANGED <<recVars, ppVars, transactions, expenses, expNextId, refreshVars, last>>

\* the request of an update_transaction in flight, without what its session
\* has loaded
Request(req) ==
    [transaction_id |-> req.transaction_id, update_data |-> req.update_data]

\* lines 218-222: the transaction is loaded
update_transaction_select(w, transaction_id, update_data) ==
    LET found == ById(transactions, transaction_id)
    IN  /\ proc[w].pc = "idle"
        /\ proc' = [proc EXCEPT ![w] =
              IF found = {}
              THEN Done("update_transaction",
                        [transaction_id |-> transaction_id,
                         update_data |-> update_data],
                        404, "Transaction not found")
              ELSE At("ut_check", "update_transaction",
                      [transaction_id |-> transaction_id,
                       update_data |-> update_data,
                       loaded |-> CHOOSE t \in found : TRUE,
                       changed |-> {}])]
        /\ UNCHANGED <<recVars, ppVars, catVars, refreshVars, last>>

\* lines 226-232: the category is looked up
update_transaction_check(w) ==
    /\ proc[w].pc = "ut_check"
    /\ proc' = [proc EXCEPT ![w] =
          IF CategoryMissing(proc[w].req.update_data)
          THEN Done("update_transaction", Request(proc[w].req), 400,
                    "Category not found")
          ELSE At("ut_flush", "update_transaction", proc[w].req)]
    /\ UNCHANGED <<recVars, ppVars, catVars, refreshVars, last>>

\* transactions.connelaide_category_id without its foreign key
ForeignKeyRefuses_absent(category_id) == FALSE

\* the foreign key of transactions.connelaide_category_id (src/models.py 21)
\* refuses the write of a reference to a category that is not stored
ForeignKeyRefuses(category_id) == ById(categories, category_id) = {}

\* lines 234-237, the flush of db.commit(): the UPDATE of the columns whose
\* value differs from the one loaded, if any
update_transaction_flush(w) ==
    LET req == proc[w].req
        changed == {f \in DOMAIN req.update_data :
                       req.update_data[f] # req.loaded[f]}
        refs == IF /\ "connelaide_category_id" \in changed
                   /\ req.update_data["connelaide_category_id"] # None
                THEN {req.update_data["connelaide_category_id"][1]}
                ELSE {}
    IN  /\ proc[w].pc = "ut_flush"
        /\ changed # {} => req.transaction_id \notin LockedByOthers(w)
        /\ refs \cap UNION {PendingDeletes(o) : o \in Others(w)} = {}
        /\ proc' = [proc EXCEPT ![w] =
              IF \E c \in refs : ForeignKeyRefuses(c)
              THEN Done("update_transaction", Request(req), 500,
                        "IntegrityError")
              ELSE At("ut_commit", "update_transaction",
                      [req EXCEPT !.changed = changed])]
        /\ UNCHANGED <<recVars, ppVars, catVars, refreshVars, last>>

\* line 237, the COMMIT of db.commit()
update_transaction_commit(w) ==
    LET req == proc[w].req
        row == CHOOSE t \in ById(transactions, req.transaction_id) : TRUE
    IN  /\ proc[w].pc = "ut_commit"
        /\ transactions' = (transactions \ {row}) \cup
              {ApplyUpdate(row, Restrict(req.update_data, req.changed), {})}
        /\ proc' = [proc EXCEPT ![w] =
              Done("update_transaction", Request(req), 200, "updated")]
        /\ UNCHANGED <<recVars, ppVars, categories, catNextId, expenses, expNextId,
                       refreshVars, last>>

\* lines 331-333: the category is loaded
delete_category_select(w, category_id) ==
    /\ proc[w].pc = "idle"
    /\ proc' = [proc EXCEPT ![w] =
          IF ById(categories, category_id) = {}
          THEN Done("delete_category",
                    [category_id |-> category_id, nulled |-> {}],
                    404, "Category not found")
          ELSE At("dc_nullout", "delete_category",
                  [category_id |-> category_id, nulled |-> {}])]
    /\ UNCHANGED <<recVars, ppVars, catVars, refreshVars, last>>

\* the bulk UPDATE committed on its own, before the DELETE
delete_category_nullout_autocommit(w) ==
    LET matched == delete_category_nulled(proc[w].req.category_id)
    IN  /\ proc[w].pc = "dc_nullout"
        /\ matched \cap LockedByOthers(w) = {}
        /\ transactions' = NullOut(transactions, matched)
        /\ proc' = [proc EXCEPT ![w] =
              At("dc_unlink", "delete_category",
                 [proc[w].req EXCEPT !.nulled = matched])]
        /\ UNCHANGED <<recVars, ppVars, categories, catNextId, expenses, expNextId,
                       refreshVars, last>>

\* lines 335-338: the bulk UPDATE, inside the session's transaction
delete_category_nullout(w) ==
    LET matched == delete_category_nulled(proc[w].req.category_id)
    IN  /\ proc[w].pc = "dc_nullout"
        /\ matched \cap LockedByOthers(w) = {}
        /\ proc' = [proc EXCEPT ![w] =
              At("dc_unlink", "delete_category",
                 [proc[w].req EXCEPT !.nulled = matched])]
        /\ UNCHANGED <<recVars, ppVars, catVars, refreshVars, last>>

\* lines 340-341, the flush of db.commit(): the session loads the
\* transactions of the deleted category (the relationship of models.py 57) and
\* sets their connelaide_category_id to NULL
delete_category_unlink(w) ==
    LET req == proc[w].req
        loaded == delete_category_nulled(req.category_id) \ req.nulled
    IN  /\ proc[w].pc = "dc_unlink"
        /\ loaded \cap LockedByOthers(w) = {}
        /\ proc' = [proc EXCEPT ![w] =
              At("dc_delete", "delete_category",
                 [req EXCEPT !.nulled = req.nulled \cup loaded])]
        /\ UNCHANGED <<recVars, ppVars, catVars, refreshVars, last>>

\* lines 340-341, the flush of db.commit(): the DELETE of the category
delete_category_delete(w) ==
    LET req == proc[w].req
        c == req.category_id
    IN  /\ proc[w].pc = "dc_delete"
        /\ c \notin UNION {KeyShares(o) \cup PendingDeletes(o) : o \in Others(w)}
        /\ proc' = [proc EXCEPT ![w] =
              IF ById(categories, c) = {}
              THEN Done("delete_category", req, 500, "StaleDataError")
              ELSE IF ~IntegrityHolds(categories \ ById(categories, c),
                                      NullOut(transactions, req.nulled), expenses)
              THEN Done("delete_category", req, 500, "IntegrityError")
              ELSE At("dc_commit", "delete_category", req)]
        /\ UNCHANGED <<recVars, ppVars, catVars, refreshVars, last>>

\* line 341, the COMMIT of db.commit()
delete_category_commit(w) ==
    /\ proc[w].pc = "dc_commit"
    /\ transactions' = NullOut(transactions, proc[w].req.nulled)
    /\ categories' = categories \ ById(categories, proc[w].req.category_id)
    /\ proc' = [proc EXCEPT ![w] =
          Done("delete_category", proc[w].req, 204, "deleted")]
    /\ UNCHANGED <<recVars, ppVars, catNextId, expenses, expNextId, refreshVars, last>>

\* a request fails or is interrupted between two steps: its session closes
\* without a commit (src/database.py 37-38) and its writes are rolled back
Interrupt(w) ==
    /\ proc[w].pc # "idle"
    /\ proc' = [proc EXCEPT ![w] =
          Done(proc[w].op, None, 500, "interrupted")]
    /\ UNCHANGED <<recVars, ppVars, catVars, refreshVars, last>>

CategoryRaceNext ==
    \/ \E w \in Workers : create_category_check(w, "Food", None)
    \/ \E w \in Workers : create_category_insert(w)
    \/ \E w \in Workers, t \in 1..NumTransactions, c \in CategoryIds :
          update_transaction_select(w, t, [connelaide_category_id |-> Some(c)])
    \/ \E w \in Workers : update_transaction_check(w)
    \/ \E w \in Workers : update_transaction_flush(w)
    \/ \E w \in Workers : update_transaction_commit(w)
    \/ \E w \in Workers, c \in CategoryIds : delete_category_select(w, c)
    \/ \E w \in Workers : delete_category_nullout(w)
    \/ \E w \in Workers : delete_category_unlink(w)
    \/ \E w \in Workers : delete_category_delete(w)
    \/ \E w \in Workers : delete_category_commit(w)
    \/ \E w \in Workers : Interrupt(w)

CategoryRaceSpec == Init /\ [][CategoryRaceNext]_vars

\* two create_category requests, one per worker, run at once
CreateRaceNext ==
    \/ \E w \in Workers, n \in CategoryNames, b \in BudgetInputs :
          proc[w].op = "none" /\ create_category_check(w, n, b)
    \/ \E w \in Workers : create_category_insert(w)

CreateRaceSpec == Init /\ [][CreateRaceNext]_vars

(***************************************************************************)
(* The refresh of transactions (src/main.py 127-207).  An instant is a     *)
(* number of ticks, TicksPerDay to the day, counted from the midnight that *)
(* starts day 0 of the proleptic Gregorian calendar, day 1 being           *)
(* 0001-01-01 as in datetime.toordinal(); all instants are UTC.            *)
(***************************************************************************)
TicksPerDay == 2

\* timedelta(days=14) of line 143 and timedelta(days=30) of line 146
OverlapDays == 14

FirstWindowDays == 30

\* days of the months before month m of a year that is not a leap year
RECURSIVE DaysBeforeMonth(_)
DaysBeforeMonth(m) ==
    IF m = 1 THEN 0 ELSE DaysBeforeMonth(m - 1) + DaysInMonth(1, m - 1)

\* the civil date of a day number, as datetime.fromordinal computes it
ord2ymd(ordinal) ==
    LET n0 == ordinal - 1
        n400 == n0 \div 146097
        r400 == n0 % 146097
        n100 == r400 \div 36524
        r100 == r400 % 36524
        n4 == r100 \div 1461
        r4 == r100 % 1461
        n1 == r4 \div 365
        n == r4 % 365
        year == n400 * 400 + 1 + n100 * 100 + n4 * 4 + n1
        leapyear == n1 = 3 /\ (n4 # 24 \/ n100 = 3)
        guess == (n + 50) \div 32
        before(m) == DaysBeforeMonth(m) + (IF m > 2 /\ leapyear THEN 1 ELSE 0)
        month == IF before(guess) > n THEN guess - 1 ELSE guess
    IN  IF n1 = 4 \/ n100 = 4
        THEN [y |-> year - 1, m |-> 12, d |-> 31]
        ELSE [y |-> year, m |-> month, d |-> n - before(month) + 1]

\* the day number of a civil date, as datetime.toordinal computes it
ymd2ord(y, m, d) ==
    LET py == y - 1
    IN  py * 365 + py \div 4 - py \div 100 + py \div 400
        + DaysBeforeMonth(m) + (IF m > 2 /\ IsLeap(y) THEN 1 ELSE 0) + d

\* strftime("%Y-%m-%d") of an instant
strftime(instant) ==
    LET date == ord2ymd(instant \div TicksPerDay)
    IN  <<Chr(date.y \div 1000), Chr((date.y \div 100) % 10),
          Chr((date.y \div 10) % 10), Chr(date.y % 10), 45,
          Chr(date.m \div 10), Chr(date.m % 10), 45,
          Chr(date.d \div 10), Chr(date.d % 10)>>

\* the instant the service starts at: 2024-01-05T00:00:00Z
ClockOrigin == ymd2ord(2024, 1, 5) * TicksPerDay

\* the instants requests arrive at, in ticks after ClockOrigin: midnight and
\* the tick after it on 2024-01-05, 2024-03-01, 2024-03-10 and 2024-03-20
ElapsedDays == {0, 56, 65, 75}

Instants == {d * TicksPerDay + t : d \in ElapsedDays, t \in {0, 1}}

\* the wall clock moves on
Tick(instant) ==
    /\ instant > clock
    /\ clock' = instant
    /\ UNCHANGED <<recVars, ppVars, catVars, metadata, metaNextId,
                   fetchedThrough, last, proc>>

\* what lambda_client.invoke and the decoding of its payload come to: the
\* call raises, or it returns a response with or without FunctionError whose
\* payload is a JSON object
FetchOutcomes ==
    {[raises |-> TRUE]}
    \cup {[raises |-> FALSE, FunctionError |-> TRUE,
           payload |-> [errorMessage |-> "Task timed out"]]}
    \cup {[raises |-> FALSE, FunctionError |-> FALSE, payload |-> p] :
            p \in {[transactions_count |-> 3],
                   [statusCode |-> 200, body |-> [transactions_count |-> 3]],
                   [error |-> "ITEM_LOGIN_REQUIRED"],
                   [statusCode |-> 500,
                    body |-> [error |-> "ITEM_LOGIN_REQUIRED"]]}}

\* lines 177-182
transactions_count(response_payload) ==
    IF "body" \in DOMAIN response_payload
    THEN Get(response_payload.body, "transactions_count", 0)
    ELSE Get(response_payload, "transactions_count", 0)

RefreshResponse(payload, success, message, transactions_fetched, last_refreshed_at) ==
    last' = [op |-> "refresh_transactions", status |-> 200,
             detail |-> message, payload |-> payload, success |-> success,
             transactions_fetched |-> transactions_fetched,
             last_refreshed_at |-> last_refreshed_at]

\* the window's start with every refresh taken for the first
start_date_first(found, now) == strftime(now - FirstWindowDays * TicksPerDay)

\* the overlap counted back from now and not from the last refresh
start_date_overlap_from_now(found, now) ==
    IF found # {}
    THEN strftime(now - OverlapDays * TicksPerDay)
    ELSE strftime(now - FirstWindowDays * TicksPerDay)

\* lines 140-146
start_date(found, now) ==
    IF found # {}
    THEN strftime((CHOOSE r \in found : TRUE).last_refreshed_at
                     - OverlapDays * TicksPerDay)
    ELSE strftime(now - FirstWindowDays * TicksPerDay)

\* the fetch job has not answered with a count of transactions
FetchFailed(fetch) ==
    \/ fetch.raises
    \/ fetch.FunctionError
    \/ LET object == IF "body" \in DOMAIN fetch.payload
                     THEN fetch.payload.body ELSE fetch.payload
       IN  "transactions_count" \notin DOMAIN object

refresh_transactions(fetch) ==
    LET found == {r \in metadata : r.key = "plaid_transactions"}
        now == ClockOrigin + clock
        end_date == strftime(now)
        payload == [start_date |-> start_date(found, now), end_date |-> end_date]
    IN  /\ IF fetch.raises
           THEN /\ RefreshResponse(payload, FALSE,
                                   "Failed to refresh transactions", None, None)
                /\ UNCHANGED <<metadata, metaNextId>>
           ELSE IF fetch.FunctionError
           THEN /\ RefreshResponse(payload, FALSE, "Lambda error", None, None)
                /\ UNCHANGED <<metadata, metaNextId>>
           ELSE /\ IF found # {}
                   THEN /\ metadata' =
                              {IF r \in found
                               THEN [r EXCEPT !.last_refreshed_at = now]
                               ELSE r : r \in metadata}
                        /\ UNCHANGED metaNextId
                   ELSE /\ metadata' = metadata \cup
                              {[id |-> metaNextId, key |-> "plaid_transactions",
                                last_refreshed_at |-> now]}
                        /\ metaNextId' = metaNextId + 1
                /\ RefreshResponse(payload, TRUE,
                                   "Successfully refreshed transactions",
                                   Some(transactions_count(fetch.payload)),
                                   Some(now))
        \* the fetch job stores what it fetched, whatever the handler does next
        /\ fetchedThrough' = IF FetchFailed(fetch) THEN fetchedThrough
                              ELSE Some(end_date)
        /\ UNCHANGED <<recVars, ppVars, catVars, clock, proc>>

RefreshNext ==
    \/ \E instant \in Instants : Tick(instant)
    \/ \E fetch \in FetchOutcomes : refresh_transactions(fetch)

RefreshSpec == Init /\ [][RefreshNext]_vars

(***************************************************************************)
(* Two refresh requests served at once by two sessions.  A session reads   *)
(* the committed rows (READ COMMITTED) and flushes its own write at commit *)
(* (autoflush=False).                                                      *)
(***************************************************************************)
\* no unique index on refresh_metadata.key
MetadataKeyRefuses_absent(key) == FALSE

\* the unique index on refresh_metadata.key refuses a second row of the key
MetadataKeyRefuses(key) == \E r \in metadata : r.key = key

\* lines 133-148: the handler reads the metadata row and the wall clock
refresh_transactions_select(w) ==
    /\ proc[w].pc = "idle"
    /\ LET found == {r \in metadata : r.key = "plaid_transactions"}
       IN  \/ /\ found = {}
              /\ proc' = [proc EXCEPT ![w] =
                    At("commit", "refresh_transactions",
                       [metadata |-> None, now |-> ClockOrigin + clock])]
           \/ \E r \in found :
                 proc' = [proc EXCEPT ![w] =
                    At("commit", "refresh_transactions",
                       [metadata |-> Some(r.id), now |-> ClockOrigin + clock])]
    /\ UNCHANGED <<recVars, ppVars, catVars, refreshVars, last>>

\* lines 151-207: the fetch, then the write of the metadata row and the
\* commit, all inside the try whose except answers success=False
refresh_transactions_commit(w, fetched) ==
    /\ proc[w].pc = "commit"
    /\ proc[w].op = "refresh_transactions"
    /\ LET req == proc[w].req
       IN  IF ~fetched
           THEN /\ proc' = [proc EXCEPT ![w] =
                      Done("refresh_transactions", req, 200,
                           "Failed to refresh transactions")]
                /\ UNCHANGED <<metadata, metaNextId>>
           ELSE IF req.metadata # None
           THEN /\ metadata' =
                      {IF r.id = req.metadata[1]
                       THEN [r EXCEPT !.last_refreshed_at = req.now]
                       ELSE r : r \in metadata}
                /\ UNCHANGED metaNextId
                /\ proc' = [proc EXCEPT ![w] =
                      Done("refresh_transactions", req, 200,
                           "Successfully refreshed transactions")]
           ELSE /\ metaNextId' = metaNextId + 1
                /\ IF MetadataKeyRefuses("plaid_transactions")
                   THEN /\ UNCHANGED metadata
                        /\ proc' = [proc EXCEPT ![w] =
                              Done("refresh_transactions", req, 200,
                                   "Failed to refresh transactions: IntegrityError")]
                   ELSE /\ metadata' = metadata \cup
                              {[id |-> metaNextId, key |-> "plaid_transactions",
                                last_refreshed_at |-> req.now]}
                        /\ proc' = [proc EXCEPT ![w] =
                              Done("refresh_transactions", req, 200,
                                   "Successfully refreshed transactions")]
    /\ fetchedThrough' = IF fetched THEN Some(strftime(proc[w].req.now))
                          ELSE fetchedThrough
    /\ UNCHANGED <<recVars, ppVars, catVars, clock, last>>

RefreshRaceNext ==
    \/ \E instant \in Instants : Tick(instant)
    \/ \E w \in Workers : refresh_transactions_select(w)
    \/ \E w \in Workers, fetched \in BOOLEAN : refresh_transactions_commit(w, fetched)
    \/ \E w \in Workers : Interrupt(w)

RefreshRaceSpec == Init /\ [][RefreshRaceNext]_vars

(***************************************************************************)
(* Pay-period claims.                                                      *)
(***************************************************************************)
\* the calendar date a stored date column holds
DateOf(text) == strptime(text)

\* two rows whose [start_date, end_date] intervals share a calendar day
CalendarOverlap(a, b) ==
    /\ DateLE(DateOf(a.start_date), DateOf(b.end_date))
    /\ DateLE(DateOf(b.start_date), DateOf(a.end_date))

\* C1: in every state the pay-period requests reach one at a time, no two
\* distinct stored pay periods have overlapping inclusive date ranges
C1_NoTwoPeriodsOverlap ==
    \A a \in payPeriods, b \in payPeriods :
        a.id # b.id => ~CalendarOverlap(a, b)

\* C2: when create_pay_period requests with overlapping ranges run at once,
\* at most one of them stores its row: no two stored pay periods overlap
C2_NoOverlapUnderRace ==
    \A a \in payPeriods, b \in payPeriods :
        a.id # b.id => ~CalendarOverlap(a, b)

\* C16: update_pay_period with a change set of checking_budget alone runs
\* neither the date validation nor the overlap check: on any stored pay
\* period, whatever else is stored, it is answered 200, sets checking_budget
\* and leaves start_date, end_date and every other pay period as they were.
C16_BudgetOnlyUpdate ==
    [][\A id \in 1..MaxPayPeriodId, b \in BudgetInputs :
          (/\ update_pay_period(id, [checking_budget |-> b])
           /\ \E p \in payPeriods : p.id = id)
          => /\ last'.status = 200
             /\ payPeriods' = {IF p.id = id
                               THEN [p EXCEPT !.checking_budget = b]
                               ELSE p : p \in payPeriods}
      ]_vars

\* two stored pay periods share a calendar day, one of them has a budget, and
\* an update has just succeeded
C16_Witness ==
    /\ \E p \in payPeriods, q \in payPeriods :
          /\ p.id # q.id
          /\ CalendarOverlap(p, q)
          /\ p.checking_budget = Some(100)
          /\ q.checking_budget = None
    /\ last.op = "update_pay_period"
    /\ last.status = 200

\* the pair of dates is not one of two well-formed calendar dates with the
\* end on or after the start
BadRange(new_start, new_end) ==
    \/ new_start = None
    \/ new_end = None
    \/ ~strptime(new_start[1]).ok
    \/ ~strptime(new_end[1]).ok
    \/ DateLT(strptime(new_end[1]), strptime(new_start[1]))

\* C17: under any sequence of create_pay_period and update_pay_period
\* requests every stored pay period ends on or after the day it starts, also
\* after an update of one of the two dates; a request whose resulting pair of
\* dates is malformed or has the end before the start is answered 400 and
\* changes nothing.
C17_RangesAreValid ==
    /\ [](\A p \in payPeriods :
             /\ strptime(p.start_date).ok
             /\ strptime(p.end_date).ok
             /\ DateLE(strptime(p.start_date), strptime(p.end_date)))
    /\ [][/\ \A d \in DateInputs, e \in DateInputs, b \in BudgetInputs :
                (create_pay_period(d, e, b) /\ BadRange(Some(d), Some(e)))
                   => last'.status = 400 /\ UNCHANGED ppVars
          /\ \A id \in 1..MaxPayPeriodId, u \in PayPeriodUpdates :
                \A p \in {p \in payPeriods : p.id = id} :
                    (/\ update_pay_period(id, u)
                     /\ {"start_date", "end_date"} \cap DOMAIN u # {}
                     /\ BadRange(Get(u, "start_date", Some(p.start_date)),
                                 Get(u, "end_date", Some(p.end_date))))
                       => last'.status = 400 /\ UNCHANGED ppVars
         ]_vars

(***************************************************************************)
(* Category claims.                                                        *)
(***************************************************************************)
CategoryIdsOf(rows) == {c.id : c \in rows}

\* C3: deleting an existing category that transactions and projected expenses
\* reference succeeds, leaves every referencing row in place with a null
\* category reference, and removes the category from the listing
C3_DeleteNullsEveryReference ==
    [][\A c \in CategoryIds :
          (delete_category(c) /\ ById(categories, c) # {})
            => /\ last'.status = 204
               /\ ById(categories', c) = {}
               /\ Referencing(transactions' \cup expenses', c) = {}
               /\ {t.id : t \in transactions'} = {t.id : t \in transactions}
               /\ {e.id : e \in expenses'} = {e.id : e \in expenses}]_vars

\* every transaction's connelaide_category_id is null or the id of a stored
\* category
TransactionRefsResolve ==
    \A t \in transactions :
        \/ t.connelaide_category_id = None
        \/ t.connelaide_category_id[1] \in CategoryIdsOf(categories)

\* C5: under any sequence of update_transaction, create_category,
\* update_category and delete_category requests every transaction's category
\* id is null or that of a stored category, and update_transaction with a
\* category id no category has is answered 400 "Category not found" and
\* changes nothing
C5_TransactionCategoryResolves ==
    /\ []TransactionRefsResolve
    /\ [][\A id \in TransactionIds, u \in CategoryIdUpdates :
              (/\ update_transaction(id, u)
             /\ ById(transactions, id) # {}
             /\ "connelaide_category_id" \in DOMAIN u
             /\ u["connelaide_category_id"] # None
             /\ u["connelaide_category_id"][1] \notin CategoryIdsOf(categories))
              => /\ last'.status = 400
                 /\ last'.detail = "Category not found"
                 /\ UNCHANGED catVars]_vars

\* C5's case: a category was deleted while a transaction keeps a reference to
\* another one
C5_Witness ==
    /\ last.op = "delete_category"
    /\ last.status = 204
    /\ \E t \in transactions : t.connelaide_category_id # None

NamesUnique ==
    \A a \in categories, b \in categories : a.name = b.name => a.id = b.id

\* C7: under any sequence of create_category, update_category and
\* delete_category requests no two stored categories have the same name;
\* create with a stored name and update to another category's name are
\* answered 400 and change nothing; update to the category's own name succeeds
C7_CategoryNamesUnique ==
    /\ []NamesUnique
    /\ [][\A n \in CategoryNames, b \in BudgetInputs :
            (create_category(n, b) /\ \E c \in categories : c.name = n)
              => last'.status = 400 /\ UNCHANGED catVars]_vars
    /\ [][\A id \in CategoryIds, n \in CategoryNames :
            (update_category(id, [name |-> Some(n)]) /\ ById(categories, id) # {})
              => IF \E c \in categories : c.name = n /\ c.id # id
                 THEN last'.status = 400 /\ UNCHANGED catVars
                 ELSE /\ last'.status = 200
                      /\ \E c \in categories' : c.id = id /\ c.name = n]_vars

\* C7's case: with two categories stored, a rename to the other one's name was
\* refused
C7_Witness ==
    /\ Cardinality(categories) = 2
    /\ last.op = "update_category"
    /\ last.status = 400


\* C4: delete_category is all-or-nothing.  Whatever the other requests do, a
\* step that removes a category leaves no transaction referring to it, a step
\* of a delete_category request that sets a reference to NULL removes the
\* category in that same step, and a delete_category request that ends without
\* success (refused, failed or interrupted between two steps) has changed no
\* stored row.
C4_DeleteIsAllOrNothing ==
    [][\A c \in CategoryIds :
          LET gone == ById(categories, c) # {} /\ ById(categories', c) = {}
              unlinked == {t \in Referencing(transactions, c) :
                              \E u \in transactions' :
                                  /\ u.id = t.id
                                  /\ u.connelaide_category_id = None}
              deleting == {w \in Workers :
                              /\ proc[w].op = "delete_category"
                              /\ proc[w].pc # "idle"
                              /\ proc'[w] # proc[w]
                              /\ proc[w].req.category_id = c}
          IN  /\ gone => Referencing(transactions', c) = {}
              /\ (deleting # {} /\ unlinked # {}) => gone
              /\ \A w \in deleting :
                    (proc'[w].pc = "idle" /\ proc'[w].status # 204)
                       => UNCHANGED <<categories, transactions>>
      ]_vars

\* a delete_category request has ended with 204 and has set the category of
\* a transaction to NULL, and another has been interrupted
C4_Witness ==
    \E w \in Workers, o \in Workers :
        /\ proc[w].pc = "idle" /\ proc[w].op = "delete_category"
        /\ proc[w].status = 204 /\ proc[w].req.nulled # {}
        /\ proc[o].pc = "idle" /\ proc[o].op = "delete_category"
        /\ proc[o].detail = "interrupted"

\* C6: when delete_category(c) and update_transaction setting
\* connelaide_category_id = c run at once, their steps interleaved in any
\* order, no stored transaction refers to a category that is not stored.
C6_NoReferenceToDeletedCategory ==
    \A t \in transactions :
        t.connelaide_category_id # None =>
            \E c \in categories : c.id = t.connelaide_category_id[1]

\* delete_category(c) has ended with 204 and an update_transaction setting c,
\* whose lookup of c had succeeded, has been refused by the store
C6_Witness ==
    \E w \in Workers, o \in Workers :
        /\ proc[w].pc = "idle" /\ proc[w].op = "delete_category"
        /\ proc[w].status = 204
        /\ proc[o].pc = "idle" /\ proc[o].op = "update_transaction"
        /\ proc[o].status = 500 /\ proc[o].detail = "IntegrityError"
        /\ proc[o].req.update_data["connelaide_category_id"]
              = Some(proc[w].req.category_id)

\* C8: two create_category requests with the same name, their name checks
\* and inserts interleaved in any order, end with one 201 and one 400
\* "Category with this name already exists", and one category of that name is
\* stored.
C8_OneSuccessOneDuplicateName ==
    \A w \in Workers, o \in Workers :
        (/\ w # o
         /\ proc[w].pc = "idle" /\ proc[w].op = "create_category"
         /\ proc[o].pc = "idle" /\ proc[o].op = "create_category"
         /\ proc[w].req.name = proc[o].req.name)
        => /\ {proc[w].status, proc[o].status} = {201, 400}
           /\ \A s \in {proc[w], proc[o]} :
                 s.status = 400 =>
                     s.detail = "Category with this name already exists"
           /\ Cardinality({c \in categories : c.name = proc[w].req.name}) = 1

(***************************************************************************)
(* Refresh claims.                                                         *)
(***************************************************************************)
\* C9: a refresh whose invocation of the fetch job fails (it raises, its
\* response carries FunctionError, or its payload is an error and no count of
\* transactions) answers success = false and leaves the rows of
\* refresh_metadata as they were.
C9_FailedFetchLeavesMetadata ==
    [][\A fetch \in FetchOutcomes :
          (refresh_transactions(fetch) /\ FetchFailed(fetch))
             => /\ last'.success = FALSE
                /\ UNCHANGED <<metadata, metaNextId>>
      ]_vars

\* the day number of the date a "%Y-%m-%d" text names, 0 if it names none
DayNumber(text) ==
    LET date == strptime(text)
        py == date.y - 1
        RECURSIVE Before(_)
        Before(m) == IF m = 1 THEN 0
                     ELSE Before(m - 1) + DaysInMonth(date.y, m - 1)
    IN  IF ~date.ok \/ Len(text) # 10 THEN 0
        ELSE py * 365 + py \div 4 - py \div 100 + py \div 400
             + Before(date.m) + date.d

\* the day number of the day an instant falls on
DayOf(instant) == instant \div TicksPerDay

\* C10: the window refresh_transactions hands to the fetch job at instant
\* now starts on the date of (last_refreshed_at - 14 days) when a row of
\* refresh_metadata for "plaid_transactions" exists, on the date of
\* (now - 30 days) otherwise, and ends on the date of now.
C10_FetchWindow ==
    [][\A fetch \in FetchOutcomes :
          refresh_transactions(fetch) =>
             LET rows == {r \in metadata : r.key = "plaid_transactions"}
                 now == ClockOrigin + clock
                 window == last'.payload
             IN  /\ DayNumber(window.end_date) = DayOf(now)
                 /\ DayNumber(window.start_date) =
                       IF rows # {}
                       THEN DayOf((CHOOSE r \in rows : TRUE).last_refreshed_at
                                     - 14 * TicksPerDay)
                       ELSE DayOf(now - 30 * TicksPerDay)
      ]_vars

\* a refresh has handed the fetch job a window that starts 14 days before the
\* day of a stored last_refreshed_at past midnight, in another month than the
\* one it ends in
C10_Witness ==
    /\ last.op = "refresh_transactions"
    /\ \E r \in metadata :
          /\ r.last_refreshed_at % TicksPerDay # 0
          /\ DayNumber(last.payload.start_date)
                = DayOf(r.last_refreshed_at) - 14
          /\ strptime(last.payload.start_date).m
                # strptime(last.payload.end_date).m

\* the texts "2024-02-" and "2024-03-"
Feb2024 == <<Chr(2), Chr(0), Chr(2), Chr(4), 45, Chr(0), Chr(2), 45>>

Mar2024 == <<Chr(2), Chr(0), Chr(2), Chr(4), 45, Chr(0), Chr(3), 45>>

\* 2024-03-10T00:00:00Z, and the instants of 2024-03-20
March10Midnight == ymd2ord(2024, 3, 10) * TicksPerDay

March20 == {i \in {ClockOrigin + c : c \in Instants} :
               i \div TicksPerDay = ymd2ord(2024, 3, 20)}

\* the window of a refresh_transactions step taken at an instant of
\* 2024-03-20: starting at `after` when last_refreshed_at is
\* 2024-03-10T00:00:00Z, at `first` when no row is stored, ending at `end`
WindowOfMarch20(after, first, end) ==
    \A fetch \in FetchOutcomes :
        (refresh_transactions(fetch) /\ ClockOrigin + clock \in March20) =>
            LET rows == {r \in metadata : r.key = "plaid_transactions"}
            IN  /\ last'.payload.end_date = end
                /\ (\E r \in rows : r.last_refreshed_at = March10Midnight)
                      => last'.payload.start_date = after
                /\ rows = {} => last'.payload.start_date = first

\* C11 as the code has it: with last_refreshed_at = 2024-03-10T00:00:00Z and
\* now = 2024-03-20T00:00:00Z the window is start = 2024-02-25 (fourteen days
\* before 10 March of a leap year), end = 2024-03-20; with no prior refresh
\* and now = 2024-03-20 it is start = 2024-02-19, end = 2024-03-20.
C11_WindowExample ==
    [][WindowOfMarch20(Feb2024 \o <<Chr(2), Chr(5)>>,
                       Feb2024 \o <<Chr(1), Chr(9)>>,
                       Mar2024 \o <<Chr(2), Chr(0)>>)]_vars

\* C11 as stated: with last_refreshed_at = 2024-03-10T00:00:00Z and
\* now = 2024-03-20T00:00:00Z the window is start = 2024-02-24,
\* end = 2024-03-20; with no prior refresh and now = 2024-03-20 it is
\* start = 2024-02-19, end = 2024-03-20.
C11_WindowExample_AsStated ==
    [][WindowOfMarch20(Feb2024 \o <<Chr(2), Chr(4)>>,
                       Feb2024 \o <<Chr(1), Chr(9)>>,
                       Mar2024 \o <<Chr(2), Chr(0)>>)]_vars

\* a refresh at 2024-03-20T00:00:00Z has failed, the stored last_refreshed_at
\* being 2024-03-10T00:00:00Z, after handing the fetch job its window
C11_Witness ==
    /\ last.op = "refresh_transactions"
    /\ ~last.success
    /\ ClockOrigin + clock = ymd2ord(2024, 3, 20) * TicksPerDay
    /\ \E r \in metadata : r.last_refreshed_at = March10Midnight
    /\ last.payload.start_date = Feb2024 \o <<Chr(2), Chr(5)>>
    /\ last.payload.end_date = Mar2024 \o <<Chr(2), Chr(0)>>

(***************************************************************************)
(* Projected-expense claims.                                               *)
(***************************************************************************)
\* the elements of a sequence
Range(s) == {s[i] : i \in DOMAIN s}

\* C12: the listing of projected expenses for a date range leaves out every
\* expense with a merged_transaction_id when includeMerged is false, and has
\* those expenses too when the caller asks with includeMerged = true.
C12_ListingHonoursIncludeMerged ==
    [][\A d \in PaddedDates, e \in PaddedDates, includeMerged \in BOOLEAN :
          get_projected_expenses(d, e, includeMerged) =>
             Range(last'.listed) =
                {x.id : x \in {x \in expenses :
                    /\ StrLE(d, x.date) /\ StrLE(x.date, e)
                    /\ (includeMerged \/ x.merged_transaction_id = None)}}
      ]_vars

\* C13: under any sequence of create, update and delete requests on projected
\* expenses every merged_transaction_id is null or the id of a stored
\* transaction, and update_projected_expense with a merged_transaction_id no
\* transaction has is answered 400 "Transaction not found" and changes nothing.
C13_MergedTransactionResolves ==
    /\ [](\A e \in expenses :
             \/ e.merged_transaction_id = None
             \/ \E t \in transactions : t.id = e.merged_transaction_id[1])
    /\ [][\A id \in 1..(MaxExpenseId + 1), u \in ExpenseUpdates :
              (/\ update_projected_expense(id, u)
               /\ ById(expenses, id) # {}
               /\ "merged_transaction_id" \in DOMAIN u
               /\ u["merged_transaction_id"] # None
               /\ \A t \in transactions : t.id # u["merged_transaction_id"][1])
              => /\ last'.status = 400
                 /\ last'.detail = "Transaction not found"
                 /\ UNCHANGED catVars]_vars

\* an expense is merged into a transaction and an update naming a transaction
\* that is not stored has just been refused
C13_Witness ==
    /\ \E e \in expenses : e.merged_transaction_id # None
    /\ last.op = "update_projected_expense"
    /\ last.status = 400
    /\ last.detail = "Transaction not found"

(***************************************************************************)
(* Transaction claims.                                                     *)
(***************************************************************************)
\* C14: an upsert with an external transaction id a stored row has gives that
\* row the delivered fields and stores no second row; one with a new id
\* stores exactly one new row; so no two stored transactions ever share a
\* transaction_id.
C14_UpsertIsIdempotent ==
    /\ [](\A a \in transactions, b \in transactions :
             a.transaction_id = b.transaction_id => a = b)
    /\ [][\A x \in ExternalIds, fields \in FetchedFields :
              upsert(x, fields) =>
                 LET old == {t \in transactions : t.transaction_id = x}
                     new == {t \in transactions' : t.transaction_id = x}
                 IN  /\ Cardinality(new) = 1
                     /\ \A t \in new : /\ t.date = fields.date
                                       /\ t.amount = fields.amount
                                       /\ t.pending = fields.pending
                     /\ old # {} =>
                           /\ {t.id : t \in new} = {t.id : t \in old}
                           /\ Cardinality(transactions')
                                 = Cardinality(transactions)
                     /\ old = {} =>
                           Cardinality(transactions')
                              = Cardinality(transactions) + 1
                     /\ {t \in transactions' : t.transaction_id # x}
                           = {t \in transactions : t.transaction_id # x}]_vars

\* a transaction the fetch job added has been delivered a second time, with
\* another amount
C14_Witness ==
    /\ last.op = "upsert" /\ last.detail = "updated"
    /\ \E t \in transactions : t.id > NumTransactions /\ t.amount = 25
    /\ Cardinality(transactions) = NumTransactions + 1

(***************************************************************************)
(* Recurring-expense claims.                                               *)
(***************************************************************************)
\* C15: a recurring expense is stored only with frequency 'monthly' or
\* 'yearly', day_of_month in 1..31, and month_of_year present and in 1..12
\* exactly when frequency is 'yearly'; a create or an update that would break
\* any of these is rejected and stores nothing.
C15_RecurringExpensesAreValid ==
    /\ [](\A r \in recurring :
             /\ r.frequency = "monthly" \/ r.frequency = "yearly"
             /\ 1 <= r.day_of_month /\ r.day_of_month <= 31
             /\ r.frequency = "yearly" <=>
                   (/\ r.month_of_year # None
                    /\ 1 <= r.month_of_year[1] /\ r.month_of_year[1] <= 12))
    /\ [][(last' # last /\ last'.status = 400) => UNCHANGED recVars]_vars

\* a yearly template with its month is stored, and a request has just been
\* rejected
C15_Witness ==
    /\ \E r \in recurring : r.frequency = "yearly" /\ r.month_of_year = Some(12)
    /\ last.op = "update_recurring_expense"
    /\ last.status = 400

\* C18: there is never more than one RefreshMetadata row of key
\* 'plaid_transactions', also when two first refreshes run at once: no step
\* removes the row, and a refresh that answers success leaves the one row
\* with last_refreshed_at at the instant the request read, the same row as
\* before when there was one.
C18_OneMetadataRow ==
    /\ [](Cardinality({r \in metadata : r.key = "plaid_transactions"}) <= 1)
    /\ [][/\ \A r \in metadata : \E r2 \in metadata' :
                r2.id = r.id /\ r2.key = r.key
          /\ \A w \in Workers :
                (/\ proc[w].pc = "commit"
                 /\ proc'[w].pc = "idle"
                 /\ proc'[w].detail = "Successfully refreshed transactions")
                => \E r2 \in metadata' :
                      /\ r2.key = "plaid_transactions"
                      /\ r2.last_refreshed_at = proc[w].req.now
                      /\ metadata # {} => \E r \in metadata : r.id = r2.id
         ]_vars

\* two first refreshes have run at once: both read no row, one has created
\* it and the unique index has refused the other
C18_Witness ==
    /\ Cardinality(metadata) = 1
    /\ \E w \in Workers, v \in Workers :
          /\ proc[w].pc = "idle" /\ proc[v].pc = "idle"
          /\ proc[w].detail = "Successfully refreshed transactions"
          /\ proc[w].req # None /\ proc[w].req.metadata = None
          /\ proc[v].detail = "Failed to refresh transactions: IntegrityError"


C20_CheckingImpactIsEnum ==
    \A t \in transactions :
        t.impacts_checking_balance \in
            {Some("true"), Some("false"), Some("review_required")}


\* C21: a create, update or delete of a category, pay period, projected
\* expense or transaction that is answered 404 or 400 leaves the rows of the
\* four tables and their id sequences exactly as they were before the
\* request.
C21_ErrorsLeaveStoreUnchanged ==
    [][last'.status \in {400, 404}
          => UNCHANGED <<payPeriods, categories, transactions, expenses,
                         ppNextId, catNextId, expNextId>>
      ]_vars

\* with a category assigned to a stored projected expense, an update naming
\* a transaction that is not stored has been refused
C21_Witness ==
    /\ last = [op |-> "update_projected_expense", status |-> 400,
               detail |-> "Transaction not found"]
    /\ \E e \in expenses : e.connelaide_category_id = Some(1)


\* C22: whatever refreshes succeeded and failed before, the window a refresh
\* hands to the fetch job starts no later than the end date of the last
\* window the fetch job did fetch, so that no day between the two is left
\* outside every fetched window.
C22_NextWindowCoversGap ==
    [][\A fetch \in FetchOutcomes :
          (refresh_transactions(fetch) /\ fetchedThrough # None)
             => DayNumber(last'.payload.start_date)
                   <= DayNumber(fetchedThrough[1])
      ]_vars

\* C23: the stored last_refreshed_at never decreases, however concurrent
\* refresh requests interleave between reading the clock and committing.
C23_TimestampNeverDecreases ==
    [][\A r \in metadata, r2 \in metadata' :
          r2.id = r.id => r2.last_refreshed_at >= r.last_refreshed_at
      ]_vars


\* C24: a create_category that succeeds stores a category with the name and
\* the target_budget of the request (null only when the request gave none).
C24_CreateKeepsTargetBudget ==
    [][\A n \in CategoryNames, b \in BudgetInputs :
          (create_category(n, b) /\ last'.status = 201)
             => \E c \in categories' :
                   /\ c.id = catNextId
                   /\ c.name = n
                   /\ c.target_budget = b
      ]_vars

\* a returned transaction names a category exactly when it has a
\* connelaide_category_id, by the name the category has in cats
NamesItsCategory(response, cats) ==
    IF response.connelaide_category_id = None
    THEN response.connelaide_category = None
    ELSE \E c \in cats :
            /\ c.id = response.connelaide_category_id[1]
            /\ response.connelaide_category = Some(c.name)

\* C25: every transaction get_transactions or update_transaction returns
\* carries a category name exactly when its connelaide_category_id is not
\* null, and then the current name of that category; a transaction whose
\* category was deleted or cleared is returned without a name, whatever its
\* connelaide_category column holds.
C25_ResponseNamesCurrentCategory ==
    [][/\ \A d \in PaddedDates, e \in PaddedDates :
             get_transactions(d, e)
                => \A i \in 1..Len(last'.listed) :
                      NamesItsCategory(last'.listed[i], categories')
       /\ \A id \in EditedIds, u \in CategoryIdUpdates :
             (update_transaction(id, u) /\ last'.status = 200)
                => NamesItsCategory(update_transaction_response(id)',
                                    categories')
      ]_vars

=============================================================================
